---- MODULE Spec2Model ----
(***************************************************************************)
(* Model of the cursor-centering pipeline of ScrollingPlugin               *)
(* (src/unnamed/part_001): the four raw-signal handlers, the debounced     *)
(* selection-change check, scroll() and the smoothscroll() timer chain.    *)
(*                                                                         *)
(* Numbers.  Pixel values are JavaScript Numbers; they are modelled as     *)
(* exact rationals [n, d] (d > 0, lowest terms), so center_offset / steps  *)
(* is an exact quotient.  Smoothness settings are held in tenths (the      *)
(* slider step is 0.1), so a smoothness of 1 is the integer 10.            *)
(*                                                                         *)
(* Time.  Every pending setTimeout carries the time left until it is due   *)
(* (rem).  Tick lets one quantum of time pass (the largest unit dividing   *)
(* both delays) and is disabled while a timer is due; raw signals may      *)
(* arrive between any two handlers.  Timers of the same delay run in       *)
(* creation order, timers of different delay due together in either order. *)
(*                                                                         *)
(* Host.  One markdown editor.  Its scroll offset is scrollTop; the        *)
(* cursor head sits at document height cursorDoc, so its on-screen         *)
(* coordinate is scrollRect.top + cursorDoc - scrollTop.  scrollTo stores  *)
(* the offset it is given (no clamping to the scroll range).               *)
(***************************************************************************)
EXTENDS Integers, Sequences, FiniteSets, TLC

\* ---------------------------------------------------------------- bounds
\* raw signals (edit, mouse-down, mouse-up, selection-change, wheel scroll)
\* delivered in one behaviour of Spec
MaxSignals == 3
\* raw signals delivered in one behaviour of SpecAnim
AnimSignals == 1
\* debounced selection-change checks pending at the same time
MaxChecks == 2
\* raw signals delivered before and after an unload
UnloadSignals == 2
\* raw signals delivered under each choice of options
OptionSignals == 3
\* raw signals delivered in one behaviour of SpecLive
LiveSignals == 2

\* ----------------------------------------------------- program constants
\* delay of the debounced check, setTimeout(..., 10)
DebounceDelay == 10
\* const time = 5, the delay between two animation steps
time == 5

\* ------------------------------------------------------- input domains
\* document heights the cursor head can be at
CursorYs == {40, 200}
\* offsets the user can scroll to with the wheel
ScrollYs == {30}
\* smoothness settings (tenths) drawn in Spec
SmoothnessValues == {0, 3}
\* the slider range 0..4 in steps of 0.1 (tenths), drawn in SpecAnim
SliderValues == 0 .. 40
\* the two ends of the slider range, drawn in SpecLive
LiveSmoothness == {0, 40}
\* scrollDOM.getBoundingClientRect()
scrollRect == [top |-> 0, bottom |-> 200]

\* ------------------------------------------------------------ rationals
Abs(x) == IF x < 0 THEN -x ELSE x

RECURSIVE GCD(_, _)
GCD(a, b) == IF b = 0 THEN a ELSE GCD(b, a % b)

\* n/d in lowest terms, d > 0
Rat(n, d) == LET g == GCD(Abs(n), d) IN [n |-> n \div g, d |-> d \div g]

Int2R(i) == [n |-> i, d |-> 1]

RAdd(a, b) == Rat(a.n * b.d + b.n * a.d, a.d * b.d)

RSub(a, b) == Rat(a.n * b.d - b.n * a.d, a.d * b.d)

RMulI(a, k) == Rat(a.n * k, a.d)

\* a / k for an integer k > 0
RDivI(a, k) == Rat(a.n, a.d * k)

RLess(a, b) == a.n * b.d < b.n * a.d

RAbs(a) == [n |-> Abs(a.n), d |-> a.d]

Zero == Int2R(0)

VARIABLES
    settings,               \* this.settings
    loaded,                 \* the plugin is loaded: its event handlers are registered
    styles,                 \* document: the style elements with id 'scrolling-scrollbar-style'
    data,                   \* the plugin's stored data (loadData / saveData)
    tab,                    \* the settings tab: open or not, and the sections it rendered
    editing,                \* this.editing
    mousedown,              \* this.mousedown
    mouseup,                \* this.mouseup
    smoothscroll_timeout,   \* this.smoothscroll_timeout (a timer id, 0 = undefined)
    timers,                 \* pending setTimeout callbacks, in creation order
    scrollTop,              \* host: editor scroll offset
    cursorDoc,              \* host: document height of the cursor head
    somethingSelected,      \* host: editor.somethingSelected()
    anim,                   \* history: the animation most recently started by scroll():
                            \*          start offset y0, cursor offset d, n steps, k writes
                            \*          made, the last (w) and the one before (prev)
    last,                   \* history: the handler that ran last and where it returned
    sigs,                   \* history: the raw signals delivered so far
    nScroll,                \* history: number of scroll() invocations so far
    editWindow,             \* history: time left of the debounce window opened by the last edit
    sinceFirst,             \* history: time since the first raw signal, -1 once a signal
                            \*          arrived DebounceDelay or more after the first
    budget                  \* number of raw signals the environment delivers

vars == <<settings, loaded, styles, data, tab, editing, mousedown, mouseup, smoothscroll_timeout, timers,
          scrollTop, cursorDoc, somethingSelected, anim, last, sigs, nScroll,
          editWindow, sinceFirst, budget>>

\* ------------------------------------------------------------ settings, styling
\* DEFAULT_SETTINGS; speed and smoothness in tenths
DEFAULT_SETTINGS ==
    [mouse_scroll_enabled |-> TRUE,
     mouse_scroll_speed |-> 10,
     mouse_scroll_smoothness |-> 10,
     mouse_scroll_invert |-> FALSE,
     center_cursor_enabled |-> TRUE,
     center_cursor_editing_distance |-> 25,
     center_cursor_moving_distance |-> 25,
     center_cursor_editing_smoothness |-> 10,
     center_cursor_moving_smoothness |-> 10,
     center_cursor_enable_mouse |-> FALSE,
     scrollbar_global |-> FALSE,
     scrollbar_visibility |-> "show",
     scrollbar_width |-> 12]

\* the options of the visibility dropdown
VisibilityValues == {"hide", "scroll", "show"}

\* values of the thickness slider (0 .. 30 in the code)
WidthValues == {0, 12, 30}

\* values of the speed and smoothness sliders of the settings tab (tenths)
TabSliderValues == {30}

\* values of the two radius sliders (0 .. 100 in the code)
DistanceValues == {25, 100}

\* what loadData() may return: nothing, some keys, keys the plugin does not know
NoData == [k \in {} |-> 0]

StoredData ==
    {NoData,
     [scrollbar_width |-> 0],
     [scrollbar_visibility |-> "hide", scrollbar_global |-> TRUE, legacy_key |-> 1]}

\* Mutant: the arguments swapped, Object.assign({}, stored, DEFAULT_SETTINGS).
loadSettings_defaults_win(stored) ==
    [k \in DOMAIN DEFAULT_SETTINGS \cup DOMAIN stored |->
        IF k \in DOMAIN DEFAULT_SETTINGS THEN DEFAULT_SETTINGS[k] ELSE stored[k]]

\* Object.assign({}, DEFAULT_SETTINGS, stored)
loadSettings(stored) ==
    [k \in DOMAIN DEFAULT_SETTINGS \cup DOMAIN stored |->
        IF k \in DOMAIN stored THEN stored[k] ELSE DEFAULT_SETTINGS[k]]

\* saveData(this.settings)
saveSettings(s) == s

\* Mutant: a thickness of 0 does not hide the scrollbar.
StyleOf_nowidth0(s) ==
    [id |-> "scrolling-scrollbar-style",
     selector |-> IF s.scrollbar_global THEN "*" ELSE ".markdown-source-view, .cm-scroller",
     width |-> IF s.scrollbar_width > 0 THEN s.scrollbar_width ELSE 0,
     display |-> IF s.scrollbar_visibility = "hide" THEN "none" ELSE "",
     color |-> IF s.scrollbar_visibility = "scroll" THEN "transparent" ELSE ""]

\* The style element update_scrollbar_css() builds from the settings s: its
\* id and the interpolated parts of its text ("" and 0: the rule is left out).
StyleOf(s) ==
    LET visibility == s.scrollbar_visibility
        width == s.scrollbar_width
        display == IF width = 0 THEN "none"
                   ELSE IF visibility = "hide" THEN "none"
                   ELSE ""
        color == IF visibility = "hide" THEN ""
                 ELSE IF visibility = "scroll" THEN "transparent"
                 ELSE ""
    IN  [id |-> "scrolling-scrollbar-style",
         selector |-> IF s.scrollbar_global THEN "*" ELSE ".markdown-source-view, .cm-scroller",
         width |-> IF width > 0 THEN width ELSE 0,
         display |-> display,
         color |-> color]

\* Mutant: the element is looked up under another id and never found.
remove_css_wrong_id(els) == els

\* remove_css(): the first element with the id, if any, leaves the document
remove_css(els) == IF els = <<>> THEN els ELSE Tail(els)

\* Mutant: the old element is not removed first.
update_scrollbar_css_noremove(els, s) == Append(els, StyleOf(s))

\* update_scrollbar_css(): remove, build, append
update_scrollbar_css(els, s) == Append(remove_css(els), StyleOf(s))

\* The settings tab before display() ran.
NoTab == [open |-> FALSE, mouse |-> FALSE, center |-> FALSE, width |-> FALSE]

\* ------------------------------------------------------------ timers
NoTimer == [kind |-> "none", id |-> 0, rem |-> 0, dest |-> Zero, step_size |-> Zero,
            step |-> 0, gen |-> 0, afterEdit |-> FALSE, cause |-> "none"]

TimerIds(tm) == {tm[i].id : i \in 1 .. Len(tm)}

\* setTimeout returns an id no live timer and no stored handle carries
NewId(tm, handle) ==
    LET free == {i \in 1 .. Len(tm) + 2 : i \notin TimerIds(tm) /\ i # handle}
    IN  CHOOSE i \in free : \A j \in free : i <= j

\* Mutant: the pending step is not cleared.
clearTimeout_none(tm, handle) == tm

\* Mutant: every pending timer of the plugin is cleared.
clearTimeout_all(tm, handle) == <<>>

\* clearTimeout(handle)
clearTimeout(tm, handle) == SelectSeq(tm, LAMBDA t : t.id # handle)

Pending(kind) == {i \in 1 .. Len(timers) : timers[i].kind = kind}

RemoveAt(s, i) == SubSeq(s, 1, i - 1) \o SubSeq(s, i + 1, Len(s))

\* ------------------------------------------------------------ the animator
\* Mutant: Math.floor in place of Math.round.
Steps_floor(s) == (10 + 4 * s) \div 10

\* Math.round(1 + 4 * smoothness), smoothness s in tenths: floor(1 + 4s/10 + 1/2)
Steps(s) == (15 + 4 * s) \div 10

\* editor_view.coordsAtPos(head).top
cursor_y(top, cy) == RSub(Int2R(scrollRect.top + cy), top)

\* (scrollInfo.top + scrollInfo.bottom) / 2
center == Rat(scrollRect.top + scrollRect.bottom, 2)

\* The part of the state scroll() and smoothscroll() work on.
Cur == [top |-> scrollTop, timers |-> timers, handle |-> smoothscroll_timeout,
        anim |-> anim, writes |-> 0]

\* Mutant: the remaining steps counted one too many.
move_to_offbyone(dest, step_size, step) == RSub(dest, RMulI(step_size, step))

\* const move_to = dest - step_size * (step - 1)
move_to(dest, step_size, step) == RSub(dest, RMulI(step_size, step - 1))

\* Mutant: the chain stops only below zero.
no_step_negative(step) == step < 0

\* if (!step) return
no_step(step) == step = 0

\* Mutant: each step moves on from the offset it finds.
smoothscroll_relative(st, dest, step_size, tm, step) ==
    IF no_step(step)
    THEN st
    ELSE LET id == NewId(st.timers, st.handle)
         IN  [st EXCEPT
                !.top = RAdd(st.top, step_size),
                !.handle = id,
                !.timers = Append(@, [NoTimer EXCEPT !.kind = "anim", !.id = id,
                                        !.rem = tm, !.dest = dest,
                                        !.step_size = step_size, !.step = step - 1,
                                        !.gen = st.anim.gen]),
                !.anim = [@ EXCEPT !.k = @ + 1, !.prev = st.anim.w,
                                    !.w = RAdd(st.top, step_size)],
                !.writes = @ + 1]

\* Mutant: the remaining steps are not counted down.
smoothscroll_nodecrement(st, dest, step_size, tm, step) ==
    IF no_step(step)
    THEN st
    ELSE LET id == NewId(st.timers, st.handle)
         IN  [st EXCEPT
                !.top = move_to(dest, step_size, step),
                !.handle = id,
                !.timers = Append(@, [NoTimer EXCEPT !.kind = "anim", !.id = id,
                                        !.rem = tm, !.dest = dest,
                                        !.step_size = step_size, !.step = step,
                                        !.gen = st.anim.gen]),
                !.anim = [@ EXCEPT !.k = IF @ < st.anim.n THEN @ + 1 ELSE @,
                                    !.prev = st.anim.w,
                                    !.w = move_to(dest, step_size, step)],
                !.writes = @ + 1]

\* smoothscroll(editor, dest, step_size, time, step)
smoothscroll(st, dest, step_size, tm, step) ==
    IF no_step(step)
    THEN st
    ELSE LET id == NewId(st.timers, st.handle)
         IN  [st EXCEPT
                !.top = move_to(dest, step_size, step),
                !.handle = id,
                !.timers = Append(@, [NoTimer EXCEPT !.kind = "anim", !.id = id,
                                        !.rem = tm, !.dest = dest,
                                        !.step_size = step_size, !.step = step - 1,
                                        !.gen = st.anim.gen]),
                !.anim = [@ EXCEPT !.k = @ + 1, !.prev = st.anim.w,
                                    !.w = move_to(dest, step_size, step)],
                !.writes = @ + 1]

\* The smoothness setting scroll() reads, line 151.
smoothness == settings.center_cursor_editing_smoothness

\* Mutant: a missing coordinate is not noticed.
no_cursor_ignored(cursorOk) == FALSE

\* if (!cursor) return
no_cursor(cursorOk) == ~cursorOk

\* scroll(editor); cursorOk: coordsAtPos returned a coordinate; src: the caller
scroll(st, cy, cursorOk, src) ==
    IF no_cursor(cursorOk)
    THEN st
    ELSE LET current_scroll_y == st.top
             center_offset == RSub(cursor_y(st.top, cy), center)
             cleared == clearTimeout(st.timers, st.handle)
             steps == Steps(smoothness)
             started == [st EXCEPT
                           !.timers = cleared,
                           !.anim = [gen |-> st.anim.gen + 1, src |-> src,
                                     y0 |-> current_scroll_y, d |-> center_offset,
                                     cy |-> cy,
                                     n |-> steps, k |-> 0, prev |-> current_scroll_y,
                                     w |-> current_scroll_y,
                                     preempt |-> cleared # st.timers,
                                     disturbed |-> FALSE,
                                     sEdit |-> settings.center_cursor_editing_smoothness,
                                     sMove |-> settings.center_cursor_moving_smoothness]]
         IN  smoothscroll(started, RAdd(current_scroll_y, center_offset),
                          RDivI(center_offset, steps), time, steps)

\* ------------------------------------------------------------ bookkeeping
Apply(r) ==
    /\ scrollTop' = r.top
    /\ timers' = r.timers
    /\ smoothscroll_timeout' = r.handle
    /\ anim' = r.anim

\* A raw signal arrives.
Signal(name) ==
    /\ Len(sigs) < budget
    /\ sigs' = Append(sigs, name)
    /\ sinceFirst' = IF sinceFirst = -1 \/ sinceFirst >= DebounceDelay THEN -1
                     ELSE sinceFirst
    /\ UNCHANGED budget

NoLast == [op |-> "init", ret |-> "done", writes |-> 0, gen |-> 0,
           afterEdit |-> FALSE, cause |-> "none", editor |-> TRUE]

Ran(op, ret, writes) == last' = [NoLast EXCEPT !.op = op, !.ret = ret, !.writes = writes]

NoAnim == [gen |-> 0, src |-> "none", y0 |-> Zero, d |-> Zero, cy |-> 0, n |-> 0, k |-> 0,
           prev |-> Zero, w |-> Zero, preempt |-> FALSE, disturbed |-> FALSE, sEdit |-> 0, sMove |-> 0]

\* ------------------------------------------------------------ handlers
\* edit_callback(editor): the document changed, the cursor head is now at y
edit_callback(y, cursorOk) ==
    /\ Signal("edit")
    /\ cursorDoc' = y
    /\ editing' = TRUE
    /\ LET r == scroll(Cur, y, cursorOk, "edit")
       IN  /\ Apply(r)
           /\ Ran("edit", IF cursorOk THEN "scrolled" ELSE "nocursor", r.writes)
    /\ nScroll' = nScroll + 1
    /\ editWindow' = DebounceDelay
    /\ UNCHANGED <<loaded, styles, data, tab, settings, mousedown, mouseup, somethingSelected>>

mousedown_callback ==
    /\ Signal("mousedown")
    /\ mousedown' = TRUE
    /\ Ran("mousedown", "done", 0)
    /\ UNCHANGED <<loaded, styles, data, tab, settings, editing, mouseup, smoothscroll_timeout, timers, scrollTop,
                   cursorDoc, somethingSelected, anim, nScroll, editWindow>>

mouseup_callback ==
    /\ Signal("mouseup")
    /\ mousedown' = FALSE
    /\ mouseup' = TRUE
    /\ Ran("mouseup", "done", 0)
    /\ UNCHANGED <<loaded, styles, data, tab, settings, editing, smoothscroll_timeout, timers, scrollTop,
                   cursorDoc, somethingSelected, anim, nScroll, editWindow>>

\* Mutant: the just-released flag is not consulted.
selectionchange_branch_nomouseup ==
    IF mousedown THEN "mousedown" ELSE "scheduled"

\* Mutant: the button is not consulted.
selectionchange_branch_nomousedown ==
    IF mouseup THEN "mouseup" ELSE "scheduled"

\* Where selectionchange_callback() goes, lines 110-116.
selectionchange_branch ==
    IF mousedown THEN "mousedown"
    ELSE IF mouseup THEN "mouseup"
    ELSE "scheduled"

\* selectionchange_callback(): the selection changed (cursor head now at y,
\* selection non-empty iff sel); cause names what moved it.
selectionchange_callback(cause, y, sel) ==
    /\ Signal("sel_" \o cause)
    /\ cause = "mouse" => (mousedown \/ (Len(sigs) > 0 /\ sigs[Len(sigs)] = "mouseup"))
    /\ cursorDoc' = y
    /\ somethingSelected' = sel
    /\ editWindow' = 0
    /\ last' = [NoLast EXCEPT !.op = "selectionchange", !.ret = selectionchange_branch,
                              !.cause = cause]
    /\ CASE selectionchange_branch = "mousedown" -> UNCHANGED <<mouseup, timers>>
         [] selectionchange_branch = "mouseup" ->
                /\ mouseup' = FALSE
                /\ UNCHANGED timers
         [] selectionchange_branch = "scheduled" ->
                /\ Cardinality(Pending("check")) < MaxChecks
                /\ timers' = Append(timers,
                       [NoTimer EXCEPT !.kind = "check",
                                       !.id = NewId(timers, smoothscroll_timeout),
                                       !.rem = DebounceDelay,
                                       !.afterEdit = (editWindow > 0),
                                       !.cause = cause])
                /\ UNCHANGED mouseup
    /\ UNCHANGED <<loaded, styles, data, tab, settings, editing, mousedown, smoothscroll_timeout, scrollTop, anim,
                   nScroll>>

\* A timer may run when it is due and no earlier timer of the same delay is.
Due(i) ==
    /\ timers[i].rem = 0
    /\ \A j \in 1 .. i - 1 : ~(timers[j].rem = 0 /\ timers[j].kind = timers[i].kind)

\* Mutant: the check does not ask for the active editor.
timeout_branch_noeditor(editorPresent) ==
    IF mousedown THEN "mousedown"
    ELSE IF editing THEN "editing"
    ELSE IF somethingSelected THEN "selected"
    ELSE "scroll"

\* Mutant: the check does not look at the button again.
timeout_branch_nomousedown(editorPresent) ==
    IF editing THEN "editing"
    ELSE IF ~editorPresent THEN "noeditor"
    ELSE IF somethingSelected THEN "selected"
    ELSE "scroll"

\* Mutant: the check does not ask for a non-empty selection.
timeout_branch_noselected(editorPresent) ==
    IF mousedown THEN "mousedown"
    ELSE IF editing THEN "editing"
    ELSE IF ~editorPresent THEN "noeditor"
    ELSE "scroll"

\* Mutant: the check does not consult the editing flag.
timeout_branch_noediting(editorPresent) ==
    IF mousedown THEN "mousedown"
    ELSE IF ~editorPresent THEN "noeditor"
    ELSE IF somethingSelected THEN "selected"
    ELSE "scroll"

\* Where the debounced check goes, lines 117-131.
timeout_branch(editorPresent) ==
    IF mousedown THEN "mousedown"
    ELSE IF editing THEN "editing"
    ELSE IF ~editorPresent THEN "noeditor"
    ELSE IF somethingSelected THEN "selected"
    ELSE "scroll"

\* The debounced check, lines 116-132.  editorPresent: getActiveViewOfType
\* returned a view; cursorOk: coordsAtPos returned a coordinate.  An input
\* the check does not get to read is fixed to TRUE.
selectionchange_timeout(i, editorPresent, cursorOk) ==
    /\ timers[i].kind = "check"
    /\ Due(i)
    /\ LET st == [Cur EXCEPT !.timers = RemoveAt(timers, i)]
           br == timeout_branch(editorPresent)
           r == IF br = "scroll" THEN scroll(st, cursorDoc, cursorOk, "check") ELSE st
       IN  /\ br \in {"mousedown", "editing"} => editorPresent
           /\ br # "scroll" => cursorOk
           /\ editing' = IF br = "editing" THEN FALSE ELSE editing
           /\ Apply(r)
           /\ nScroll' = IF br = "scroll" THEN nScroll + 1 ELSE nScroll
           /\ last' = [NoLast EXCEPT
                         !.op = "check",
                         !.ret = IF br # "scroll" THEN br
                                 ELSE IF cursorOk THEN "scrolled" ELSE "nocursor",
                         !.writes = r.writes,
                         !.editor = editorPresent,
                         !.afterEdit = timers[i].afterEdit,
                         !.cause = timers[i].cause]
    /\ UNCHANGED <<loaded, styles, data, tab, settings, mousedown, mouseup, cursorDoc, somethingSelected, sigs,
                   editWindow, sinceFirst, budget>>

\* The callback smoothscroll() schedules, line 159.
smoothscroll_timeout_cb(i) ==
    /\ timers[i].kind = "anim"
    /\ Due(i)
    /\ LET t == timers[i]
           st == [Cur EXCEPT !.timers = RemoveAt(timers, i)]
           r == smoothscroll(st, t.dest, t.step_size, time, t.step)
       IN  /\ Apply(r)
           /\ last' = [NoLast EXCEPT !.op = "anim",
                                     !.ret = IF t.step = 0 THEN "stop" ELSE "step",
                                     !.writes = r.writes, !.gen = t.gen]
    /\ UNCHANGED <<loaded, styles, data, tab, settings, editing, mousedown, mouseup, cursorDoc, somethingSelected,
                   sigs, nScroll, editWindow, sinceFirst, budget>>

\* The user scrolls the editor (wheel, scrollbar) to offset y.
UserScroll(y) ==
    /\ Signal("wheel")
    /\ scrollTop' = Int2R(y)
    /\ anim' = [anim EXCEPT !.disturbed = TRUE]
    /\ Ran("wheel", "done", 0)
    /\ UNCHANGED <<loaded, styles, data, tab, settings, editing, mousedown, mouseup, smoothscroll_timeout, timers,
                   cursorDoc, somethingSelected, nScroll, editWindow>>

\* The unit of time of the model: it divides both timer delays.
Quantum == GCD(DebounceDelay, time)

\* One quantum of time passes; no timer is overdue.
Tick ==
    /\ \A i \in 1 .. Len(timers) : timers[i].rem > 0
    /\ timers' = [i \in 1 .. Len(timers) |-> [timers[i] EXCEPT !.rem = @ - Quantum]]
    /\ editWindow' = IF editWindow > 0 THEN editWindow - Quantum ELSE 0
    /\ sinceFirst' = IF sigs # <<>> /\ sinceFirst >= 0 /\ sinceFirst < DebounceDelay
                     THEN sinceFirst + Quantum ELSE sinceFirst
    /\ Ran("tick", "done", 0)
    /\ UNCHANGED <<loaded, styles, data, tab, settings, editing, mousedown, mouseup, smoothscroll_timeout, scrollTop,
                   cursorDoc, somethingSelected, anim, sigs, nScroll, budget>>

\* ------------------------------------------------------------ lifecycle, settings tab
\* what the lifecycle and the settings tab leave alone
pipeline == <<editing, mousedown, mouseup, smoothscroll_timeout, timers, scrollTop,
              cursorDoc, somethingSelected, anim, sigs, nScroll, editWindow, sinceFirst,
              budget>>

\* onload(): load the settings, register tab and handlers, inject the style
onload ==
    /\ ~loaded
    /\ loaded' = TRUE
    /\ settings' = loadSettings(data)
    /\ styles' = update_scrollbar_css(styles, settings')
    /\ tab' = NoTab
    /\ Ran("onload", "done", 0)
    /\ UNCHANGED <<data, pipeline>>

\* onunload(): remove the style; the host drops the registered handlers and
\* the settings tab.  No timer is touched.
onunload ==
    /\ loaded
    /\ loaded' = FALSE
    /\ styles' = remove_css(styles)
    /\ tab' = NoTab
    /\ Ran("onunload", "done", 0)
    /\ UNCHANGED <<settings, data, pipeline>>

\* The sections display() renders for the settings s.
Rendered(s) ==
    [open |-> TRUE,
     mouse |-> s.mouse_scroll_enabled,
     center |-> s.center_cursor_enabled,
     width |-> s.scrollbar_visibility # "hide"]

\* display(): the user opens the settings tab
display ==
    /\ loaded
    /\ tab' = Rendered(settings)
    /\ Ran("display", "done", 0)
    /\ UNCHANGED <<settings, loaded, styles, data, pipeline>>

\* A change handler of the scrollbar section: set key to v, update the style,
\* render again if the handler calls display(), save.
scrollbar_change(op, key, v, redisplay) ==
    /\ loaded
    /\ tab.open
    /\ settings' = [settings EXCEPT ![key] = v]
    /\ styles' = update_scrollbar_css(styles, settings')
    /\ tab' = IF redisplay THEN Rendered(settings') ELSE tab
    /\ data' = saveSettings(settings')
    /\ Ran(op, "done", 0)
    /\ UNCHANGED <<loaded, pipeline>>

\* "Apply to all scrollbars" toggle
set_scrollbar_global(v) ==
    scrollbar_change("set_scrollbar_global", "scrollbar_global", v, FALSE)

\* "Scrollbar visibility" dropdown
set_scrollbar_visibility(v) ==
    scrollbar_change("set_scrollbar_visibility", "scrollbar_visibility", v, TRUE)

\* "Scrollbar visibility" restore-default button
reset_scrollbar_visibility ==
    scrollbar_change("reset_scrollbar_visibility", "scrollbar_visibility",
                     DEFAULT_SETTINGS.scrollbar_visibility, FALSE)

\* "Scrollbar thickness" slider, rendered unless the visibility was "hide"
set_scrollbar_width(v) ==
    /\ tab.width
    /\ scrollbar_change("set_scrollbar_width", "scrollbar_width", v, FALSE)

\* "Scrollbar thickness" restore-default button
reset_scrollbar_width ==
    /\ tab.width
    /\ scrollbar_change("reset_scrollbar_width", "scrollbar_width",
                        DEFAULT_SETTINGS.scrollbar_width, TRUE)

\* Mutant: the handler does not save.
setting_change_nosave(key, v, section, redisplay) ==
    /\ loaded
    /\ tab.open
    /\ section
    /\ settings' = [settings EXCEPT ![key] = v]
    /\ tab' = IF redisplay THEN Rendered(settings') ELSE tab
    /\ Ran("change", "done", 0)
    /\ UNCHANGED <<loaded, styles, data, pipeline>>

\* A change handler of the mouse scrolling and centered cursor sections, in a
\* section that is rendered: set key to v, render again if the handler calls
\* display(), save.
setting_change(key, v, section, redisplay) ==
    /\ loaded
    /\ tab.open
    /\ section
    /\ settings' = [settings EXCEPT ![key] = v]
    /\ tab' = IF redisplay THEN Rendered(settings') ELSE tab
    /\ data' = saveSettings(settings')
    /\ Ran("change", "done", 0)
    /\ UNCHANGED <<loaded, styles, pipeline>>

\* mouse scrolling: "Enabled" toggle
set_mouse_scroll_enabled(v) ==
    setting_change("mouse_scroll_enabled", v, TRUE, TRUE)

\* mouse scrolling: "Scroll speed" restore default, slider
reset_mouse_scroll_speed ==
    setting_change("mouse_scroll_speed", DEFAULT_SETTINGS.mouse_scroll_speed,
                   tab.mouse, TRUE)

set_mouse_scroll_speed(v) ==
    setting_change("mouse_scroll_speed", v, tab.mouse, FALSE)

\* mouse scrolling: "Scroll smoothness" restore default, slider
reset_mouse_scroll_smoothness ==
    setting_change("mouse_scroll_smoothness", DEFAULT_SETTINGS.mouse_scroll_smoothness,
                   tab.mouse, TRUE)

set_mouse_scroll_smoothness(v) ==
    setting_change("mouse_scroll_smoothness", v, tab.mouse, FALSE)

\* mouse scrolling: "Invert scroll direction" toggle
set_mouse_scroll_invert(v) ==
    setting_change("mouse_scroll_invert", v, tab.mouse, FALSE)

\* centered cursor: "Enabled" toggle
set_center_cursor_enabled(v) ==
    setting_change("center_cursor_enabled", v, TRUE, TRUE)

\* centered cursor: "Center radius while editing" restore default, slider
reset_center_cursor_editing_distance ==
    setting_change("center_cursor_editing_distance",
                   DEFAULT_SETTINGS.center_cursor_editing_distance, tab.center, TRUE)

set_center_cursor_editing_distance(v) ==
    setting_change("center_cursor_editing_distance", v, tab.center, FALSE)

\* centered cursor: "Center radius while moving cursor" restore default, slider
reset_center_cursor_moving_distance ==
    setting_change("center_cursor_moving_distance",
                   DEFAULT_SETTINGS.center_cursor_moving_distance, tab.center, TRUE)

set_center_cursor_moving_distance(v) ==
    setting_change("center_cursor_moving_distance", v, tab.center, FALSE)

\* centered cursor: "Scroll animation when editing" restore default, slider
reset_center_cursor_editing_smoothness ==
    setting_change("center_cursor_editing_smoothness",
                   DEFAULT_SETTINGS.center_cursor_editing_smoothness, tab.center, TRUE)

set_center_cursor_editing_smoothness(v) ==
    setting_change("center_cursor_editing_smoothness", v, tab.center, FALSE)

\* centered cursor: "Scroll animation when moving cursor" restore default, slider
reset_center_cursor_moving_smoothness ==
    setting_change("center_cursor_moving_smoothness",
                   DEFAULT_SETTINGS.center_cursor_moving_smoothness, tab.center, TRUE)

set_center_cursor_moving_smoothness(v) ==
    setting_change("center_cursor_moving_smoothness", v, tab.center, FALSE)

\* centered cursor: "Invoke on mouse-driven cursor movement" toggle
set_center_cursor_enable_mouse(v) ==
    setting_change("center_cursor_enable_mouse", v, tab.center, FALSE)

\* ------------------------------------------------------------ specification
\* The state after construction, with the settings loaded and b signals to come.
InitWith(S, b) ==
    /\ settings \in S
    /\ loaded = TRUE
    /\ styles = update_scrollbar_css(<<>>, settings)
    /\ data = settings
    /\ tab = NoTab
    /\ budget = b
    /\ editing = FALSE
    /\ mousedown = FALSE
    /\ mouseup = FALSE
    /\ smoothscroll_timeout = 0
    /\ timers = <<>>
    /\ scrollTop = Zero
    /\ cursorDoc = 100
    /\ somethingSelected = FALSE
    /\ anim = NoAnim
    /\ last = NoLast
    /\ sigs = <<>>
    /\ nScroll = 0
    /\ editWindow = 0
    /\ sinceFirst = 0

Init ==
    InitWith({[DEFAULT_SETTINGS EXCEPT !.center_cursor_editing_smoothness = e,
                                       !.center_cursor_moving_smoothness = m] :
                  e \in SmoothnessValues, m \in SmoothnessValues}, MaxSignals)

Next ==
    \/ \E y \in CursorYs, cursorOk \in BOOLEAN : edit_callback(y, cursorOk)
    \/ mousedown_callback
    \/ mouseup_callback
    \/ \E cause \in {"key", "mouse"}, y \in CursorYs, sel \in BOOLEAN :
           selectionchange_callback(cause, y, sel)
    \/ \E i \in 1 .. Len(timers), editorPresent \in BOOLEAN, cursorOk \in BOOLEAN :
           selectionchange_timeout(i, editorPresent, cursorOk)
    \/ \E i \in 1 .. Len(timers) : smoothscroll_timeout_cb(i)
    \/ \E y \in ScrollYs : UserScroll(y)
    \/ Tick

Spec == Init /\ [][Next]_vars

\* The animator over the whole slider range: every editing smoothness 0.0 .. 4.0.
InitAnim ==
    InitWith({[DEFAULT_SETTINGS EXCEPT !.center_cursor_editing_smoothness = e] :
                  e \in SliderValues}, AnimSignals)

SpecAnim == InitAnim /\ [][Next]_vars

\* The plugin constructed and not yet loaded, with some stored data.
InitCss ==
    /\ settings = DEFAULT_SETTINGS
    /\ loaded = FALSE
    /\ styles = <<>>
    /\ data \in StoredData
    /\ tab = NoTab
    /\ budget = 0
    /\ editing = FALSE
    /\ mousedown = FALSE
    /\ mouseup = FALSE
    /\ smoothscroll_timeout = 0
    /\ timers = <<>>
    /\ scrollTop = Zero
    /\ cursorDoc = 100
    /\ somethingSelected = FALSE
    /\ anim = NoAnim
    /\ last = NoLast
    /\ sigs = <<>>
    /\ nScroll = 0
    /\ editWindow = 0
    /\ sinceFirst = 0

\* Loading, unloading and the scrollbar section of the settings tab.
NextCss ==
    \/ onload
    \/ onunload
    \/ display
    \/ \E v \in BOOLEAN : set_scrollbar_global(v)
    \/ \E v \in VisibilityValues : set_scrollbar_visibility(v)
    \/ reset_scrollbar_visibility
    \/ \E v \in WidthValues : set_scrollbar_width(v)
    \/ reset_scrollbar_width

SpecCss == InitCss /\ [][NextCss]_vars

\* Loading, unloading and every handler of the settings tab.
NextTab ==
    \/ NextCss
    \/ \E v \in BOOLEAN : set_mouse_scroll_enabled(v)
    \/ reset_mouse_scroll_speed
    \/ \E v \in TabSliderValues : set_mouse_scroll_speed(v)
    \/ reset_mouse_scroll_smoothness
    \/ \E v \in TabSliderValues : set_mouse_scroll_smoothness(v)
    \/ \E v \in BOOLEAN : set_mouse_scroll_invert(v)
    \/ \E v \in BOOLEAN : set_center_cursor_enabled(v)
    \/ reset_center_cursor_editing_distance
    \/ \E v \in DistanceValues : set_center_cursor_editing_distance(v)
    \/ reset_center_cursor_moving_distance
    \/ \E v \in DistanceValues : set_center_cursor_moving_distance(v)
    \/ reset_center_cursor_editing_smoothness
    \/ \E v \in TabSliderValues : set_center_cursor_editing_smoothness(v)
    \/ reset_center_cursor_moving_smoothness
    \/ \E v \in TabSliderValues : set_center_cursor_moving_smoothness(v)
    \/ \E v \in BOOLEAN : set_center_cursor_enable_mouse(v)

SpecTab == InitCss /\ [][NextTab]_vars

\* The pipeline of a loaded plugin that may be unloaded: the registered
\* handlers run while it is loaded, the timers run whenever they are due.
InitUnload == InitWith({DEFAULT_SETTINGS}, UnloadSignals)

NextUnload ==
    \/ loaded /\ \E y \in CursorYs, cursorOk \in BOOLEAN : edit_callback(y, cursorOk)
    \/ loaded /\ mousedown_callback
    \/ loaded /\ mouseup_callback
    \/ loaded /\ \E cause \in {"key", "mouse"}, y \in CursorYs, sel \in BOOLEAN :
                     selectionchange_callback(cause, y, sel)
    \/ \E i \in 1 .. Len(timers), editorPresent \in BOOLEAN, cursorOk \in BOOLEAN :
           selectionchange_timeout(i, editorPresent, cursorOk)
    \/ \E i \in 1 .. Len(timers) : smoothscroll_timeout_cb(i)
    \/ Tick
    \/ onunload

SpecUnload == InitUnload /\ [][NextUnload]_vars

\* The pipeline under every value of the options of the centering section.
InitOptions ==
    InitWith({[DEFAULT_SETTINGS EXCEPT !.center_cursor_enabled = en,
                                       !.center_cursor_enable_mouse = em,
                                       !.center_cursor_editing_distance = de,
                                       !.center_cursor_moving_distance = dm,
                                       !.center_cursor_editing_smoothness = 0,
                                       !.center_cursor_moving_smoothness = 0] :
                  en \in BOOLEAN, em \in BOOLEAN,
                  de \in DistanceValues, dm \in DistanceValues}, OptionSignals)

SpecOptions == InitOptions /\ [][Next]_vars

\* The pipeline with the scheduling the host guarantees: time passes, and a
\* callback that is due runs, so that again and again none is due.
InitLive ==
    InitWith({[DEFAULT_SETTINGS EXCEPT !.center_cursor_editing_smoothness = e] :
                  e \in LiveSmoothness}, LiveSignals)

NoTimerDue == \A i \in 1 .. Len(timers) : timers[i].rem > 0

Fairness ==
    /\ WF_vars(Tick)
    /\ []<>NoTimerDue

SpecLive == InitLive /\ [][Next]_vars /\ Fairness

\* ------------------------------------------------------------ properties
NSigs == Len(sigs)

Count(name) == Cardinality({i \in 1 .. NSigs : sigs[i] = name})

\* No timer of the plugin is pending.
Quiet == timers = <<>>

\* C1: every edit handler invokes scroll() once, and the debounced check of
\* the first selection-change that arrives inside the debounce window of an
\* edit, when it runs with the button up, clears the editing flag and
\* returns without a scroll write.
C1_EditSuppressesNextSelectionChange ==
    /\ last.op = "edit" => nScroll >= 1
    /\ (last.op = "check" /\ last.afterEdit /\ last.ret # "mousedown")
           => (last.ret = "editing" /\ last.writes = 0)

\* C2: one keystroke (one edit signal and one or more selection-change
\* signals, all inside one debounce window, nothing else) invokes scroll()
\* exactly once in total, and one mouse click invokes it zero times, once
\* every timer has run.
Keystroke ==
    /\ Count("edit") = 1
    /\ Count("sel_key") >= 1
    /\ Count("edit") + Count("sel_key") = NSigs
    /\ sinceFirst # -1

Click ==
    /\ Count("mousedown") = 1
    /\ Count("mouseup") = 1
    /\ sigs[1] = "mousedown"
    /\ Count("mousedown") + Count("mouseup") + Count("sel_mouse") = NSigs

C2_OneActionOneRecenter ==
    /\ (Quiet /\ Keystroke) => nScroll = 1
    /\ (Quiet /\ NSigs >= 2 /\ Click) => nScroll = 0

\* C3: a selection-change that arrives right after mouse-down, mouse-up
\* schedules no check, writes no scroll offset, starts and cancels no
\* animation, and only clears the just-released flag.
C3_ClickSelectionChangeIgnored ==
    [][(/\ last'.op = "selectionchange"
        /\ NSigs >= 2
        /\ sigs[NSigs] = "mouseup"
        /\ sigs[NSigs - 1] = "mousedown")
       => (/\ mouseup /\ ~mouseup'
           /\ UNCHANGED <<timers, scrollTop, smoothscroll_timeout, anim, nScroll,
                          editing, mousedown>>)]_vars

C3_Witness ==
    /\ NSigs >= 3
    /\ sigs[NSigs - 2] = "mousedown"
    /\ sigs[NSigs - 1] = "mouseup"
    /\ last.op = "selectionchange"
    /\ last.ret = "mouseup"
    /\ ~mouseup

\* C4: a selection-change caused by keyboard navigation that arrives after
\* an earlier click, with no button down and no edit pending, is not
\* swallowed by the just-released flag: it schedules its debounced check.
ClickBefore ==
    \E i \in 1 .. NSigs, j \in 1 .. NSigs :
        i < j /\ sigs[i] = "mousedown" /\ sigs[j] = "mouseup"

C4_KeyboardSelectionChangeScheduled ==
    (/\ last.op = "selectionchange"
     /\ last.cause = "key"
     /\ ClickBefore
     /\ ~mousedown
     /\ ~editing)
        => last.ret = "scheduled"

\* C5: at most one animation timer is pending, and it is the one the handle
\* names, belonging to the animation started last.
C5_AtMostOneAnimationTimer ==
    /\ Cardinality(Pending("anim")) <= 1
    /\ \A i \in Pending("anim") :
           timers[i].id = smoothscroll_timeout /\ timers[i].gen = anim.gen

C5_Witness ==
    /\ anim.preempt
    /\ last.op \in {"edit", "check"}
    /\ last.writes = 1
    /\ Cardinality(Pending("anim")) = 1

\* C6: once scroll() has started an animation over a pending one, no step of
\* the older animation runs, and when the new one has finished undisturbed
\* the scroll offset is the offset read at its start plus its cursor offset.
C6_SecondAnimationWins ==
    /\ last.op = "anim" => last.gen = anim.gen
    /\ (anim.preempt /\ Pending("anim") = {} /\ ~anim.disturbed)
           => scrollTop = RAdd(anim.y0, anim.d)

C6_Witness ==
    /\ anim.preempt
    /\ Pending("anim") = {}
    /\ ~anim.disturbed
    /\ anim.n > 1
    /\ anim.d # Zero
    /\ last.op = "anim"

\* round(1 + 4s) for s in tenths: the integer nearest to 1 + 4s/10, halves up
Round14(s) == CHOOSE m \in 0 .. 20 : 10 * m - 5 <= 10 + 4 * s /\ 10 + 4 * s < 10 * m + 5

\* C7: for every smoothness s of the slider range an animation makes exactly
\* round(1 + 4s) scroll writes, between 1 and 17; with s = 0 the single
\* write is made in the triggering handler.
C7_WritesPerAnimation ==
    anim.gen > 0 =>
        /\ anim.k >= 1 /\ anim.k <= Round14(anim.sEdit)
        /\ Round14(anim.sEdit) \in 1 .. 17
        /\ Pending("anim") = {} => anim.k = Round14(anim.sEdit)
        /\ (anim.sEdit = 0 /\ last.op \in {"edit", "check"} /\ last.ret = "scrolled")
               => (anim.k = 1 /\ last.writes = 1)
        /\ (anim.sEdit = 10 /\ Pending("anim") = {}) => anim.k = 5
        /\ (anim.sEdit = 40 /\ Pending("anim") = {}) => anim.k = 17
        /\ last.op = "anim" /\ last.ret = "stop" => last.writes = 0

C7_Witness ==
    /\ anim.sEdit = 40
    /\ anim.k = 17
    /\ Pending("anim") = {}
    /\ last.op = "anim"

\* C8: the k-th write of an animation sets the offset to y0 + k*d/n; it
\* differs from the write before (y0 for the first) by exactly d/n, is closer
\* to the destination when d # 0, and the n-th write is y0 + d.
C8_EqualStepsToDestination ==
    last.writes = 1 =>
        /\ scrollTop = RAdd(anim.y0, RDivI(RMulI(anim.d, anim.k), anim.n))
        /\ RSub(scrollTop, anim.prev) = RDivI(anim.d, anim.n)
        /\ anim.d # Zero =>
               RLess(RAbs(RSub(RAdd(anim.y0, anim.d), scrollTop)),
                     RAbs(RSub(RAdd(anim.y0, anim.d), anim.prev)))
        /\ anim.k = anim.n => scrollTop = RAdd(anim.y0, anim.d)

C8_Witness ==
    /\ last.writes = 1
    /\ anim.sEdit = 10
    /\ anim.d = Int2R(100)
    /\ anim.k = 5
    /\ RSub(scrollTop, anim.prev) = Int2R(20)
    /\ scrollTop = RAdd(anim.y0, Int2R(100))

\* C9: an animation started from the debounced check has
\* round(1 + 4 * center_cursor_moving_smoothness) steps, one started from
\* the edit handler round(1 + 4 * center_cursor_editing_smoothness).
C9_NavigationUsesMovingSmoothness ==
    /\ anim.src = "check" => anim.n = Round14(anim.sMove)
    /\ anim.src = "edit" => anim.n = Round14(anim.sEdit)

\* C10: a debounced check that fires while the editor has a non-empty
\* selection writes no scroll offset, cancels and starts no animation and
\* schedules no timer.
C10_SelectionBlocksRecenter ==
    [][(last'.op = "check" /\ last'.ret # "noeditor" /\ somethingSelected)
       => (/\ UNCHANGED <<scrollTop, smoothscroll_timeout, anim, nScroll>>
           /\ Len(timers') = Len(timers) - 1
           /\ \A i \in 1 .. Len(timers') : \E j \in 1 .. Len(timers) : timers'[i] = timers[j])]_vars

C10_Witness ==
    /\ last.op = "check"
    /\ last.ret = "selected"
    /\ somethingSelected

\* The pending timers after a step are those before it, less the one that ran.
OnlyTheRunTimerLeft ==
    /\ Len(timers') = Len(timers) - 1
    /\ \A i \in 1 .. Len(timers') : \E j \in 1 .. Len(timers) : timers'[i] = timers[j]

\* C11: a debounced check that fires with no active editor leaves the
\* scroll offset and the animation handle alone and schedules no timer.
C11_NoEditorNoEffect ==
    [][(last'.op = "check" /\ ~last'.editor)
       => (/\ UNCHANGED <<scrollTop, smoothscroll_timeout, anim>>
           /\ OnlyTheRunTimerLeft)]_vars

C11_Witness ==
    /\ last.op = "check"
    /\ ~last.editor
    /\ last.ret = "noeditor"
    /\ ~mousedown
    /\ ~editing

\* C12 as claimed: a re-center attempt without a cursor coordinate changes
\* nothing: scroll offset, handle, pending animation steps and all three
\* flags are as before the triggering handler, and no timer is scheduled.
C12_NoCursorNoStateChange ==
    [][(last'.op \in {"edit", "check"} /\ last'.ret = "nocursor")
       => (/\ UNCHANGED <<scrollTop, smoothscroll_timeout, anim>>
           /\ UNCHANGED <<editing, mousedown, mouseup>>
           /\ \A i \in 1 .. Len(timers') : \E j \in 1 .. Len(timers) : timers'[i] = timers[j]
           /\ \A j \in 1 .. Len(timers) :
                  timers[j].kind = "anim" => \E i \in 1 .. Len(timers') : timers'[i] = timers[j])]_vars

\* C12 as amended: the same, except that the edit handler has set editing
\* to true before it calls scroll(); the mouse flags are unchanged, and the
\* debounced check leaves editing unchanged too.
C12_NoCursorOnlyEditingSet ==
    [][(last'.op \in {"edit", "check"} /\ last'.ret = "nocursor")
       => (/\ UNCHANGED <<scrollTop, smoothscroll_timeout, anim>>
           /\ UNCHANGED <<mousedown, mouseup>>
           /\ editing' = IF last'.op = "edit" THEN TRUE ELSE editing
           /\ \A i \in 1 .. Len(timers') : \E j \in 1 .. Len(timers) : timers'[i] = timers[j]
           /\ \A j \in 1 .. Len(timers) :
                  timers[j].kind = "anim" => \E i \in 1 .. Len(timers') : timers'[i] = timers[j])]_vars

C12_Witness ==
    /\ last.op = "edit"
    /\ last.ret = "nocursor"
    /\ editing
    /\ Pending("anim") # {}

\* C19: a check that fires while the button is down (pressed after the
\* selection-change scheduled it) writes no scroll offset, starts and
\* cancels no animation and leaves the editing flag as it was.
C19_ButtonDownAtFiring ==
    [][(last'.op = "check" /\ mousedown)
       => (/\ UNCHANGED <<scrollTop, smoothscroll_timeout, anim, nScroll, editing>>
           /\ OnlyTheRunTimerLeft)]_vars

C19_Witness ==
    /\ last.op = "check"
    /\ last.ret = "mousedown"
    /\ editing
    /\ \E i \in 1 .. NSigs, j \in 1 .. NSigs :
           i < j /\ sigs[i] = "sel_key" /\ sigs[j] = "mousedown"

C20_CenteringReachesMidpoint ==
    /\ (anim.gen > 0 /\ anim.k = anim.n /\ ~anim.disturbed /\ cursorDoc = anim.cy)
           => cursor_y(scrollTop, cursorDoc) = center
    /\ (anim.gen > 0 /\ cursor_y(anim.y0, anim.cy) = center)
           => /\ anim.d = Zero
              /\ anim.w = anim.y0
              /\ last.writes = 1 => scrollTop = anim.y0

C20_Witness ==
    /\ anim.gen >= 2
    /\ anim.y0 # Zero
    /\ cursor_y(anim.y0, anim.cy) = center
    /\ anim.n > 1
    /\ anim.k = anim.n
    /\ last.op = "anim"
    /\ last.writes = 1
    /\ scrollTop = anim.y0

\* C13: after onunload no timer of the plugin is pending, neither a debounced
\* check nor an animation step, and none of their callbacks runs.
C13_NoTimerAfterUnload ==
    ~loaded => /\ Pending("check") = {}
               /\ Pending("anim") = {}
               /\ last.op \notin {"check", "anim"}

\* C14: after onunload, whatever loads and scrollbar setting changes came
\* before, the document holds no style element with the plugin's id.
C14_NoStyleAfterUnload ==
    last.op = "onunload" => (~loaded /\ styles = <<>>)

C14_Witness ==
    /\ last.op = "onunload"
    /\ data # NoData
    /\ settings.scrollbar_global
    /\ settings.scrollbar_width = 30
    /\ settings.scrollbar_visibility = "scroll"

\* C15: with centering enabled, a re-center trigger leaves the scroll offset where it was when the
\* cursor is no farther from the viewport midpoint than the configured
\* radius, a percentage of half the viewport height.
Radius(op) ==
    IF op = "edit" THEN settings.center_cursor_editing_distance
    ELSE settings.center_cursor_moving_distance

HalfHeight == (scrollRect.bottom - scrollRect.top) \div 2

C15_DeadZone ==
    (/\ settings.center_cursor_enabled
     /\ last.op \in {"edit", "check"}
     /\ last.ret = "scrolled"
     /\ ~RLess(Int2R(Radius(last.op) * HalfHeight), RMulI(RAbs(anim.d), 100)))
        => (last.writes = 0 /\ scrollTop = anim.y0)

\* C16: while center_cursor_enabled is false no edit and no selection-change
\* causes a scroll write or starts an animation.
C16_DisabledNeverScrolls ==
    ~settings.center_cursor_enabled
        => (/\ anim.gen = 0
            /\ Pending("anim") = {}
            /\ last.op \in {"edit", "check", "anim"} => last.writes = 0)

\* C17: with centering enabled, a cursor move made with the mouse (mouse-down, the click's
\* selection-change, mouse-up, nothing selected, every timer run) has
\* re-centered if and only if center_cursor_enable_mouse is true.
C17_MouseMoveRecentersIffEnabled ==
    (/\ settings.center_cursor_enabled
     /\ sigs = <<"mousedown", "sel_mouse", "mouseup">>
     /\ ~somethingSelected
     /\ Quiet)
        => (nScroll >= 1 <=> settings.center_cursor_enable_mouse)

\* C26: an edit starts a re-center whatever the three flags and the selection
\* are: the handler sets editing, calls scroll() once, and with a cursor
\* coordinate available a new animation starts with its first write and no
\* step timer of an earlier animation stays pending.
C26_EditAlwaysRecenters ==
    [][last'.op = "edit"
       => (/\ editing'
           /\ nScroll' = nScroll + 1
           /\ UNCHANGED <<mousedown, mouseup, somethingSelected>>
           /\ last'.ret = "scrolled"
                  => (/\ anim'.gen = anim.gen + 1
                      /\ anim'.src = "edit"
                      /\ last'.writes = 1
                      /\ \A i \in 1 .. Len(timers') :
                             timers'[i].kind = "anim" => timers'[i].gen = anim'.gen))]_vars

C26_Witness ==
    /\ last.op = "edit"
    /\ last.ret = "scrolled"
    /\ mousedown
    /\ editing
    /\ anim.preempt
    /\ anim.gen = 2

\* C27: mouse-down changes only the button-down flag, mouse-up only the
\* button-down and just-released flags, and a selection-change received with
\* the button down changes no plugin state and schedules no timer; none of
\* them writes the scroll offset or the animation handle.
C27_MouseHandlingFrame ==
    [][/\ last'.op = "mousedown"
           => (mousedown' /\ UNCHANGED <<editing, mouseup, smoothscroll_timeout, timers,
                                          scrollTop, anim, nScroll, settings>>)
       /\ last'.op = "mouseup"
           => (~mousedown' /\ mouseup'
               /\ UNCHANGED <<editing, smoothscroll_timeout, timers, scrollTop, anim,
                              nScroll, settings>>)
       /\ (last'.op = "selectionchange" /\ mousedown)
           => UNCHANGED <<editing, mousedown, mouseup, smoothscroll_timeout, timers,
                          scrollTop, anim, nScroll, settings>>]_vars

C27_Witness ==
    /\ last.op = "selectionchange"
    /\ last.ret = "mousedown"
    /\ mousedown
    /\ editing
    /\ Pending("anim") # {}

\* C28: the editing flag is cleared only by a debounced check that fires
\* with the button up; every other step leaves a set flag set; and a check
\* that fires with the button up while the flag is set, however long after
\* the edit it was scheduled and whatever caused it, clears the flag and
\* returns without calling scroll().
C28_EditingClearedOnlyByCheck ==
    [][/\ (editing /\ ~editing') => (last'.op = "check" /\ ~mousedown)
       /\ (editing /\ ~(last'.op = "check" /\ ~mousedown)) => editing'
       /\ (editing /\ last'.op = "check" /\ ~mousedown)
           => (/\ ~editing'
               /\ last'.writes = 0
               /\ nScroll' = nScroll
               /\ UNCHANGED <<scrollTop, smoothscroll_timeout, anim>>)]_vars

C28_Witness ==
    /\ last.op = "check"
    /\ last.ret = "editing"
    /\ ~last.afterEdit
    /\ ~editing
    /\ sigs = <<"edit", "sel_key">>

\* C29: a scheduled check is never cancelled: an accepted selection-change
\* adds one check timer and removes none, a check timer leaves the pending
\* timers only by running, the one scheduled first running first, and a
\* check that runs with the button up, editing clear, an editor, nothing
\* selected calls scroll(), also when a mouse-down and mouse-up came between.
CheckIds(tm) == {tm[i].id : i \in {j \in 1 .. Len(tm) : tm[j].kind = "check"}}

FirstCheck == timers[CHOOSE i \in Pending("check") : \A j \in Pending("check") : i <= j].id

C29_ChecksNeverCancelled ==
    [][/\ (last'.op = "selectionchange" /\ last'.ret = "scheduled")
           => (/\ CheckIds(timers) \subseteq CheckIds(timers')
               /\ Cardinality(CheckIds(timers')) = Cardinality(CheckIds(timers)) + 1)
       /\ CheckIds(timers) \ CheckIds(timers') # {}
           => (/\ last'.op = "check"
               /\ CheckIds(timers) \ CheckIds(timers') = {FirstCheck})
       /\ (last'.op = "check" /\ ~mousedown /\ ~editing /\ last'.editor
             /\ ~somethingSelected)
           => nScroll' = nScroll + 1]_vars

C29_Witness ==
    /\ sigs = <<"sel_key", "mousedown", "mouseup">>
    /\ last.op = "check"
    /\ last.ret = "scrolled"
    /\ last.writes = 1

\* C30: the plan of an animation is fixed when it starts: every pending step
\* of it carries destination y0 + d and delta d / n; its k-th write is
\* destination - delta * (n - k) even when something else moved the scroll
\* offset in between, and its last write is the destination.
Dest == RAdd(anim.y0, anim.d)

Delta == RDivI(anim.d, anim.n)

C30_PlanFixedWritesAbsolute ==
    /\ \A i \in Pending("anim") :
           timers[i].gen = anim.gen
               => (/\ timers[i].dest = Dest
                   /\ timers[i].step_size = Delta
                   /\ timers[i].step = anim.n - anim.k)
    /\ (last.op \in {"edit", "check", "anim"} /\ last.writes = 1)
           => (/\ scrollTop = RSub(Dest, RMulI(Delta, anim.n - anim.k))
               /\ anim.k = anim.n => scrollTop = Dest)

C30_Witness ==
    /\ anim.disturbed
    /\ anim.n > 1
    /\ anim.k = anim.n
    /\ last.op = "anim"
    /\ last.writes = 1
    /\ scrollTop = Dest

\* C25: every started animation terminates: from any state with a step
\* pending a state is reached where none is and the animation has made all
\* its writes; and from some point on no step is pending and the scroll
\* offset, unless the user moved it, rests at the destination.
C25_AnimationTerminates ==
    /\ (Pending("anim") # {}) ~> (Pending("anim") = {} /\ anim.k = anim.n)
    /\ <>[](/\ Pending("anim") = {}
            /\ (anim.gen > 0 /\ ~anim.disturbed) => scrollTop = Dest)

C25_Witness ==
    /\ anim.gen > 0
    /\ anim.n = 17
    /\ anim.k = anim.n
    /\ Pending("anim") = {}
    /\ ~anim.disturbed
    /\ scrollTop = Dest
    /\ scrollTop # Zero

\* C21: after loadSettings the settings hold every key of DEFAULT_SETTINGS,
\* the default where the stored data lacks the key and the stored value
\* where it has it, and stored keys the plugin does not know change none of
\* them; a loaded plugin's settings always hold every recognized key.
Recognized(stored) ==
    [k \in DOMAIN stored \cap DOMAIN DEFAULT_SETTINGS |-> stored[k]]

C21_LoadSettingsMerges ==
    /\ loaded => DOMAIN DEFAULT_SETTINGS \subseteq DOMAIN settings
    /\ last.op = "onload" =>
           \A k \in DOMAIN DEFAULT_SETTINGS :
               /\ k \notin DOMAIN data => settings[k] = DEFAULT_SETTINGS[k]
               /\ k \in DOMAIN data => settings[k] = data[k]
               /\ settings[k] = loadSettings(Recognized(data))[k]

C21_Witness ==
    /\ last.op = "onload"
    /\ "legacy_key" \in DOMAIN data
    /\ "scrollbar_width" \notin DOMAIN data
    /\ settings.scrollbar_visibility = "hide"
    /\ settings.scrollbar_global
    /\ settings.scrollbar_width = DEFAULT_SETTINGS.scrollbar_width

\* C23: after any sequence of loads, scrollbar setting changes and unloads
\* the document holds at most one style element with the plugin's id.
C23_AtMostOneStyleElement ==
    /\ Len(styles) <= 1
    /\ \A i \in 1 .. Len(styles) : styles[i].id = "scrolling-scrollbar-style"

C23_Witness ==
    /\ Len(styles) = 1
    /\ last.op = "onload"
    /\ settings.scrollbar_width = 30
    /\ settings.scrollbar_global

\* C24: while the plugin is loaded the style block is the one the current
\* settings give: display none iff the visibility is "hide" or the width 0,
\* a transparent thumb iff the visibility is "scroll", the universal
\* selector iff scrollbar_global, a width rule iff the width is positive;
\* updating again with the same settings leaves the document as it is.
C24_StyleDerivedFromSettings ==
    loaded =>
        /\ Len(styles) = 1
        /\ styles[1].display = "none"
               <=> (settings.scrollbar_visibility = "hide" \/ settings.scrollbar_width = 0)
        /\ styles[1].display \in {"none", ""}
        /\ styles[1].color = "transparent" <=> settings.scrollbar_visibility = "scroll"
        /\ styles[1].color \in {"transparent", ""}
        /\ styles[1].selector = "*" <=> settings.scrollbar_global
        /\ styles[1].width = settings.scrollbar_width
        /\ update_scrollbar_css(styles, settings) = styles

C24_Witness ==
    /\ last.op = "reset_scrollbar_width"
    /\ settings.scrollbar_visibility = "scroll"
    /\ settings.scrollbar_global
    /\ styles[1].color = "transparent"
    /\ styles[1].selector = "*"

\* C22: every change of the settings made through the settings tab is saved:
\* when a change handler has run, the stored data equal the settings object.
C22_ChangeIsSaved ==
    [][(loaded /\ tab.open /\ last'.op \notin {"onload", "onunload", "display"})
       => data' = settings']_vars

C22_Witness ==
    /\ last.op = "change"
    /\ data = settings
    /\ settings.center_cursor_editing_distance = 100
    /\ settings.mouse_scroll_speed = 30
    /\ ~settings.center_cursor_enabled
    /\ "legacy_key" \in DOMAIN data

====
